---- MODULE Spec2Model ----
(***************************************************************************)
(* Model of src/extract.py: WhiteBloodCellDetector.                        *)
(*                                                                         *)
(* Numbers.  A pixel coordinate returned by the detection model is a       *)
(* float; it is represented by an integer count of half pixels.  A Python  *)
(* number computed by _process_image is a record [f, v2]: f tells whether  *)
(* the Python object is a float (TRUE) or an int (FALSE) and v2 is twice   *)
(* its value, so that the halves produced by (right + left) / 2 are exact. *)
(* A confidence is an integer count of thousandths.                        *)
(***************************************************************************)
EXTENDS Integers, Sequences, FiniteSets, TLC

VARIABLES
    save_to_csv,        \* self.save_to_csv
    input_directory,    \* self.input_directory
    output_directory,   \* self.output_directory
    data,               \* content of the directory "data" and what the model detects in each image
    dirs,               \* the directories that exist and can receive crops
    csv,                \* output.csv: [exists, rows], the file's existence and its rows
    pc,                 \* position of the caller in extract()
    image_files,        \* the file names extract() has still to process
    image,              \* the image _process_image has open
    boxes,              \* the detections of that image still to visit
    cur,                \* the crop just saved, whose row is still to be written
    saved,              \* the crops saved by the current (or last) run of extract(), in order
    trace,              \* the detections visited by that run with the filter's outcome
    csvAtStart,         \* content of output.csv when that run began
    calls,              \* the file names that run passed to the model, in order
    status,             \* how that run ended: "none", "running", "returned" or an exception
    runs                \* number of runs of extract() begun

vars == <<save_to_csv, input_directory, output_directory, data, dirs, csv, pc,
          image_files, image, boxes, cur, saved, trace, csvAtStart, calls,
          status, runs>>

(***************************************************************************)
(* Bounds                                                                  *)
(***************************************************************************)
MaxRuns == 2

(***************************************************************************)
(* Python numbers and their rendering                                      *)
(***************************************************************************)
Abs(n) == IF n < 0 THEN -n ELSE n

\* int(x) of a float given in half pixels: truncation toward zero
Trunc(c) == IF c >= 0 THEN c \div 2 ELSE -((-c) \div 2)

PyInt(n) == [f |-> FALSE, v2 |-> 2 * n]

\* x - y, x + n: the result is a float as soon as one operand is
PySub(x, y) == [f |-> x.f \/ y.f, v2 |-> x.v2 - y.v2]
PyAddInt(x, n) == [f |-> x.f, v2 |-> x.v2 + 2 * n]

\* max(x, y) and min(x, y) return the first argument unless the second is
\* strictly larger (smaller): the type of the result is that of the winner
PyMax(x, y) == IF y.v2 > x.v2 THEN y ELSE x
PyMin(x, y) == IF y.v2 < x.v2 THEN y ELSE x

Digit(d) == <<"0", "1", "2", "3", "4", "5", "6", "7", "8", "9">>[d + 1]

RECURSIVE NatStr(_)
NatStr(n) == IF n < 10 THEN Digit(n) ELSE NatStr(n \div 10) \o Digit(n % 10)

\* str(x) inside an f-string, and what csv.writer writes for a number
PyStr(x) ==
    LET sign == IF x.v2 < 0 THEN "-" ELSE ""
        whole == NatStr(Abs(x.v2) \div 2)
    IN  IF x.f
        THEN sign \o whole \o "." \o (IF Abs(x.v2) % 2 = 1 THEN "5" ELSE "0")
        ELSE sign \o whole

\* "{:.2f}".format(conf): conf in thousandths, rounded to the nearest hundredth
\* (the confidences of the model never end in 5 thousandths, see Confidences)
Format2(conf) ==
    LET q == (conf + 5) \div 10
    IN  NatStr(q \div 100) \o "." \o Digit((q \div 10) % 10) \o Digit(q % 10)

\* f.endswith(".jpg")
EndsWithJpg(name) ==
    /\ Len(name) >= 4
    /\ SubSeq(name, Len(name) - 3, Len(name)) = ".jpg"

(***************************************************************************)
(* The detection filter and the crop window of _process_image              *)
(***************************************************************************)
Threshold == 350        \* 0.35, in thousandths
HalfWindow == 100

\* placeholders of the locals that hold nothing
NoCrop == "NoCrop"
NoImage == "NoImage"

\* box.conf < 0.35
ConfTooLowOrEqual(conf) == conf <= Threshold
ConfTooLow(conf) == conf < Threshold

\* a / b < 0.7 for ints a and b # 0: the quotient of two pixel counts is never
\* within one rounding of 0.7 unless it is exactly 7/10, and then it is the
\* double 0.7 itself, so the comparison of doubles is the comparison of fractions
Elongated(a, b) == a * 10 < b * 7

\* lines 50-60: the outcome of the two tests for one box; a division by zero
\* raises ZeroDivisionError (the second quotient is not evaluated when the first
\* test succeeds)
Filter(conf, xyxy) ==
    IF ConfTooLow(conf) THEN "rejected"
    ELSE LET left == Trunc(xyxy[1])
             top == Trunc(xyxy[2])
             right == Trunc(xyxy[3])
             bottom == Trunc(xyxy[4])
             width == Abs(left - right)
             height == Abs(top - bottom)
         IN  IF height = 0 THEN "ZeroDivisionError"
             ELSE IF Elongated(width, height) THEN "rejected"
             ELSE IF width = 0 THEN "ZeroDivisionError"
             ELSE IF Elongated(height, width) THEN "rejected"
             ELSE "accepted"

\* (a + b) / 2: always a float
MidFloor(a, b) == PyInt((a + b) \div 2)
Mid(a, b) == [f |-> TRUE, v2 |-> a + b]

\* lines 61-65: mid and the clamped window of a box, size = image.size
Window(xyxy, size) ==
    LET left == Trunc(xyxy[1])
        top == Trunc(xyxy[2])
        right == Trunc(xyxy[3])
        bottom == Trunc(xyxy[4])
        mid == <<Mid(right, left), Mid(bottom, top)>>
    IN  [mid |-> mid,
         left |-> PyMax(PyAddInt(mid[1], -HalfWindow), PyInt(0)),
         top |-> PyMax(PyAddInt(mid[2], -HalfWindow), PyInt(0)),
         right |-> PyMin(PyAddInt(mid[1], HalfWindow), PyInt(size[1])),
         bottom |-> PyMin(PyAddInt(mid[2], HalfWindow), PyInt(size[2]))]

\* line 69: the name of the crop file inside the output directory
CropName(confidence, filename, w, i) ==
    confidence \o "_" \o filename \o "_x_" \o PyStr(w.mid[1]) \o "_y_" \o PyStr(w.mid[2])
        \o "_h_" \o PyStr(PySub(w.bottom, w.top))
        \o "_w_" \o PyStr(PySub(w.right, w.left))
        \o "_result" \o NatStr(i) \o ".jpg"

\* lines 66-69: the crop saved for a box that passed the filter
Crop(filename, size, i, conf, xyxy, det) ==
    LET w == Window(xyxy, size)
        confidence == Format2(conf)
    IN  [name |-> CropName(confidence, filename, w, i),
         filename |-> filename,
         confidence |-> confidence,
         i |-> i,
         det |-> det,
         mid |-> w.mid,
         left |-> w.left, top |-> w.top, right |-> w.right, bottom |-> w.bottom]

\* image.crop of an empty or inverted box, or saving its result, may raise
EmptyRegion(c) == c.right.v2 <= c.left.v2 \/ c.bottom.v2 <= c.top.v2

(***************************************************************************)
(* The result table output.csv                                             *)
(***************************************************************************)
Header ==
    [filename |-> "filename", confidence |-> "confidence", center_x |-> "center_x",
     center_y |-> "center_y", height |-> "height", width |-> "width"]

NoFile == [exists |-> FALSE, rows |-> <<>>]

\* lines 28-30: open('output.csv', 'w') and the header row
OpenCsv == [exists |-> TRUE, rows |-> <<Header>>]

\* lines 94-97: open('output.csv', 'a') and writerow
SaveToCsvTruncating(file, row) == [exists |-> TRUE, rows |-> <<row>>]
SaveToCsv(file, row) == [exists |-> TRUE, rows |-> Append(file.rows, row)]

\* lines 71-73 and 94: the call binds right - left to the parameter height
\* and bottom - top to the parameter width
CsvRowSwappedCenter(c) ==
    [filename |-> c.filename, confidence |-> c.confidence,
     center_x |-> PyStr(c.mid[2]), center_y |-> PyStr(c.mid[1]),
     height |-> PyStr(PySub(c.right, c.left)),
     width |-> PyStr(PySub(c.bottom, c.top))]
CsvRow(c) ==
    [filename |-> c.filename, confidence |-> c.confidence,
     center_x |-> PyStr(c.mid[1]), center_y |-> PyStr(c.mid[2]),
     height |-> PyStr(PySub(c.right, c.left)),
     width |-> PyStr(PySub(c.bottom, c.top))]

\* line 70: if self.save_to_csv
RecordsAlways(flag) == TRUE
Records(flag) == flag

(***************************************************************************)
(* The environment: the input directories and the detection model.         *)
(* A file is [name, ok, size, results]: ok tells whether Image.open        *)
(* decodes it, size is image.size and results is what self.model returns   *)
(* for it, a sequence of result groups, each a sequence of boxes           *)
(* [conf, xyxy] with xyxy in half pixels.                                  *)
(***************************************************************************)
Det(conf, l, t, r, b) == [conf |-> conf, xyxy |-> <<l, t, r, b>>]
File(name, ok, size, results) ==
    [name |-> name, ok |-> ok, size |-> size, results |-> results]

\* confidences of the boxes: below, at and above 0.35; none is a tie of "{:.2f}"
Confidences == {349, 350, 812}

\* horizontal and vertical extents of the boxes, <<low, high>> in half pixels:
\* inside the image, at its borders, outside it, with a fraction that int()
\* drops, reversed, and of zero length after int()
XSpans ==
    { <<300, 380>>, <<1, 81>>, <<760, 800>>, <<900, 940>>, <<1000, 1080>>,
      <<-41, 39>>, <<-600, -520>>, <<380, 300>> }
YSpans ==
    { <<320, 400>>, <<200, 280>>, <<0, 41>>, <<700, 761>>, <<1100, 1180>>, <<-640, -560>> }

\* widths and heights, in pixels, around the two ends of the band [0.7, 1/0.7]
Sides == {0, 6, 7, 10, 14, 15}

Sizes == { <<400, 400>>, <<150, 120>> }

\* one image holding one box: every confidence with every pair of sides, and
\* every placement of a box on every size of image
FilterGrid ==
    { <<File("cell01.jpg", TRUE, <<400, 400>>,
             << <<Det(c, 200, 100, 200 + 2 * w + f, 100 + 2 * h + f)>> >>)>> :
        c \in Confidences, w \in Sides, h \in Sides, f \in {0, 1} }
WindowGrid ==
    { <<File("cell01.jpg", TRUE, size,
             << <<Det(812, x[1], y[1], x[2], y[2])>> >>)>> :
        x \in XSpans, y \in YSpans, size \in Sizes }

Good == Det(812, 300, 320, 380, 400)
Corner == Det(900, 0, 200, 80, 280)
Low == Det(349, 300, 320, 380, 400)
Flat == Det(600, 20, 41, 100, 41)
Thin == Det(600, 41, 20, 41, 100)

\* directories of several files, several result groups and several boxes
Batches ==
    { << File("notes.txt", TRUE, <<0, 0>>, <<>>),
         File("a.jpg", TRUE, <<500, 500>>, << <<Low, Good>>, <<Corner>> >>),
         File("b.jpg", TRUE, <<400, 400>>, << <<>>, <<Good>> >>) >>,
      << File("a.jpg", TRUE, <<400, 400>>, << <<Corner>> >>),
         File("bad.jpg", FALSE, <<0, 0>>, <<>>),
         File("b.jpg", TRUE, <<400, 400>>, << <<Good>> >>) >>,
      << File("a.jpg", TRUE, <<400, 400>>, << <<Thin, Flat, Good>> >>),
         File("b.jpg", TRUE, <<400, 400>>, << <<Good>> >>) >>,
      << File("a.jpg", TRUE, <<400, 400>>, <<>>),
         File("b.jpg", TRUE, <<400, 400>>, << <<Good, Good>> >>) >> }

Worlds == FilterGrid \cup WindowGrid \cup Batches

\* what os.listdir and Image.open find: "data" holds the files of the world,
\* "empty" holds no image, "" and "missing" do not exist
DirExists(d) == d \in {"data", "empty"}
Listing(d) ==
    CASE d = "data" -> data
      [] d = "empty" -> <<File("notes.txt", TRUE, <<0, 0>>, <<>>)>>
      [] OTHER -> <<>>

InputDirectories == {"missing", "empty", "data"}
OutputDirectories == {"wbc"}

\* a csv file left by an earlier process
Stale ==
    [exists |-> TRUE,
     rows |-> <<Header, [filename |-> "old.jpg", confidence |-> "0.50", center_x |-> "1.0",
                         center_y |-> "1.0", height |-> "2.0", width |-> "2.0"]>>]

(***************************************************************************)
(* Helpers of the actions                                                  *)
(***************************************************************************)
RECURSIVE Names(_)
Names(files) ==
    IF files = <<>> THEN <<>> ELSE <<Head(files).name>> \o Names(Tail(files))

\* the file of that name in the input directory (os.path.join and Image.open)
FileAt(d, name) ==
    LET files == Listing(d)
    IN  files[CHOOSE k \in 1..Len(files) : files[k].name = name]

\* the boxes of one result group, each with the index i of its group
RECURSIVE Tagged(_, _)
Tagged(group, i) ==
    IF group = <<>> THEN <<>>
    ELSE <<[i |-> i, conf |-> Head(group).conf, xyxy |-> Head(group).xyxy]>>
             \o Tagged(Tail(group), i)

\* for i, result in enumerate(results): for box in result.boxes
RECURSIVE Enumerate(_, _)
Enumerate(results, i) ==
    IF results = <<>> THEN <<>>
    ELSE Tagged(Head(results), i) \o Enumerate(Tail(results), i + 1)

\* where the caller stands once a box is done: at the next box of the image,
\* or back in the loop of extract()
After(rest) == IF rest = <<>> THEN "image" ELSE "box"

\* an exception leaves extract(): its locals are gone
Raise(exception) ==
    /\ pc' = "idle"
    /\ status' = exception
    /\ image_files' = <<>>
    /\ image' = NoImage
    /\ boxes' = <<>>
    /\ cur' = NoCrop

(***************************************************************************)
(* Init and the operations                                                 *)
(***************************************************************************)
Init ==
    /\ save_to_csv = FALSE
    /\ input_directory = ""
    /\ output_directory = ""
    /\ data \in Worlds
    /\ dirs = {}
    /\ csv \in {NoFile, Stale}
    /\ pc = "idle"
    /\ image_files = <<>>
    /\ image = NoImage
    /\ boxes = <<>>
    /\ cur = NoCrop
    /\ saved = <<>>
    /\ trace = <<>>
    /\ csvAtStart = csv
    /\ calls = <<>>
    /\ status = "none"
    /\ runs = 0

\* lines 25-31
set_save_to_csv(value) ==
    /\ pc = "idle"
    /\ save_to_csv' = value
    /\ csv' = IF value THEN OpenCsv ELSE csv
    /\ UNCHANGED <<input_directory, output_directory, data, dirs, pc, image_files,
                   image, boxes, cur, saved, trace, csvAtStart, calls, status, runs>>

\* lines 33-35
set_input_directory(d) ==
    /\ pc = "idle"
    /\ input_directory' = d
    /\ UNCHANGED <<save_to_csv, output_directory, data, dirs, csv, pc, image_files,
                   image, boxes, cur, saved, trace, csvAtStart, calls, status, runs>>

\* lines 37-43
set_output_directory(d) ==
    /\ pc = "idle"
    /\ output_directory' = d
    /\ dirs' = dirs \cup {d}
    /\ UNCHANGED <<save_to_csv, input_directory, data, csv, pc, image_files,
                   image, boxes, cur, saved, trace, csvAtStart, calls, status, runs>>

\* lines 75-86: extract() up to its loop. os.makedirs("") and os.listdir of a
\* directory that does not exist raise FileNotFoundError
ExtractBegin ==
    /\ pc = "idle"
    /\ runs < MaxRuns
    /\ runs' = runs + 1
    /\ saved' = <<>>
    /\ trace' = <<>>
    /\ calls' = <<>>
    /\ csvAtStart' = csv
    /\ image' = NoImage
    /\ boxes' = <<>>
    /\ cur' = NoCrop
    /\ UNCHANGED <<save_to_csv, input_directory, output_directory, data, csv>>
    /\ IF output_directory \notin dirs /\ output_directory = ""
       THEN /\ pc' = "idle"
            /\ status' = "FileNotFoundError"
            /\ image_files' = <<>>
            /\ dirs' = dirs
       ELSE /\ dirs' = dirs \cup {output_directory}
            /\ IF ~DirExists(input_directory)
               THEN /\ pc' = "idle"
                    /\ status' = "FileNotFoundError"
                    /\ image_files' = <<>>
               ELSE LET found == SelectSeq(Names(Listing(input_directory)), EndsWithJpg)
                    IN  IF Len(found) = 0
                        THEN /\ pc' = "idle"
                             /\ status' = "returned"
                             /\ image_files' = <<>>
                        ELSE /\ pc' = "image"
                             /\ status' = "running"
                             /\ image_files' = found

\* lines 89-92 and 45-48: the next file name of the loop, Image.open and the
\* call of the model. Image.open raises on a file it cannot decode
OpenImage ==
    /\ pc = "image"
    /\ image_files # <<>>
    /\ LET filename == Head(image_files)
           file == FileAt(input_directory, filename)
       IN  IF ~file.ok
           THEN /\ Raise("UnidentifiedImageError")
                /\ UNCHANGED calls
           ELSE /\ calls' = Append(calls, filename)
                /\ image' = [filename |-> filename, size |-> file.size]
                /\ boxes' = Enumerate(file.results, 0)
                /\ pc' = After(boxes')
                /\ image_files' = Tail(image_files)
                /\ UNCHANGED <<status, cur>>
    /\ UNCHANGED <<save_to_csv, input_directory, output_directory, data, dirs, csv,
                   saved, trace, csvAtStart, runs>>

\* line 89: the loop of extract() is exhausted
ExtractReturn ==
    /\ pc = "image"
    /\ image_files = <<>>
    /\ pc' = "idle"
    /\ status' = "returned"
    /\ image' = NoImage
    /\ UNCHANGED <<save_to_csv, input_directory, output_directory, data, dirs, csv,
                   image_files, boxes, cur, saved, trace, csvAtStart, calls, runs>>

\* lines 49-70: one box of the image: the filter, the window, the crop and its
\* file. raises tells whether image.crop or save raises on an empty region
ProcessBox(raises) ==
    /\ pc = "box"
    /\ LET box == Head(boxes)
           outcome == Filter(box.conf, box.xyxy)
           crop == Crop(image.filename, image.size, box.i, box.conf, box.xyxy,
                        Len(trace) + 1)
           entry == [filename |-> image.filename, size |-> image.size, i |-> box.i,
                     conf |-> box.conf, xyxy |-> box.xyxy, outcome |-> outcome]
       IN  /\ trace' = Append(trace, entry)
           /\ CASE outcome = "rejected" ->
                     /\ ~raises
                     /\ boxes' = Tail(boxes)
                     /\ pc' = After(boxes')
                     /\ UNCHANGED <<saved, status, image_files, image, cur>>
                [] outcome = "ZeroDivisionError" ->
                     /\ ~raises
                     /\ Raise("ZeroDivisionError")
                     /\ UNCHANGED saved
                [] outcome = "accepted" /\ raises ->
                     /\ EmptyRegion(crop)
                     /\ Raise("ValueError")
                     /\ UNCHANGED saved
                [] outcome = "accepted" /\ ~raises ->
                     /\ saved' = Append(saved, crop)
                     /\ boxes' = Tail(boxes)
                     /\ IF Records(save_to_csv)
                        THEN pc' = "record" /\ cur' = crop
                        ELSE pc' = After(boxes') /\ cur' = NoCrop
                     /\ UNCHANGED <<status, image_files, image>>
    /\ UNCHANGED <<save_to_csv, input_directory, output_directory, data, dirs, csv,
                   csvAtStart, calls, runs>>

\* lines 70-73 and 94-97: the row of the crop just saved
Record ==
    /\ pc = "record"
    /\ csv' = SaveToCsv(csv, CsvRow(cur))
    /\ pc' = After(boxes)
    /\ cur' = NoCrop
    /\ UNCHANGED <<save_to_csv, input_directory, output_directory, data, dirs,
                   image_files, image, boxes, saved, trace, csvAtStart, calls,
                   status, runs>>

Next ==
    \/ \E value \in BOOLEAN : set_save_to_csv(value)
    \/ \E d \in InputDirectories : set_input_directory(d)
    \/ \E d \in OutputDirectories : set_output_directory(d)
    \/ ExtractBegin
    \/ OpenImage
    \/ ExtractReturn
    \/ \E raises \in BOOLEAN : ProcessBox(raises)
    \/ Record

Spec == Init /\ [][Next]_vars

(***************************************************************************)
(* Vocabulary of the properties                                            *)
(***************************************************************************)
\* the rows the current run has appended to output.csv
Appended ==
    IF Len(csv.rows) >= Len(csvAtStart.rows)
    THEN SubSeq(csv.rows, Len(csvAtStart.rows) + 1, Len(csv.rows))
    ELSE <<>>

\* width and height of a box as the filter measures them, in pixels
BoxWidth(xyxy) == Abs(Trunc(xyxy[3]) - Trunc(xyxy[1]))
BoxHeight(xyxy) == Abs(Trunc(xyxy[2]) - Trunc(xyxy[4]))

\* 0.7 <= w / h <= 1 / 0.7
RatioInBand(w, h) == w > 0 /\ h > 0 /\ 7 * h <= 10 * w /\ 7 * w <= 10 * h

\* the detections the model produces for the files of a directory, in order
RECURSIVE Produced(_)
Produced(files) ==
    IF files = <<>> THEN <<>>
    ELSE LET file == Head(files)
             dets == IF EndsWithJpg(file.name) /\ file.ok
                     THEN Enumerate(file.results, 0) ELSE <<>>
         IN  [k \in 1..Len(dets) |->
                 [filename |-> file.name, i |-> dets[k].i, conf |-> dets[k].conf,
                  xyxy |-> dets[k].xyxy]] \o Produced(Tail(files))

WorkedExample ==
    <<File("cell01.jpg", TRUE, <<400, 400>>, << <<Det(812, 300, 320, 380, 400)>> >>)>>

\* a step that ends a run of extract() by a normal return
Returns == status' = "returned" /\ (pc # "idle" \/ runs' # runs)

C2_DegenerateBoxRejected ==
    /\ \A k \in 1..Len(trace) :
          (/\ trace[k].conf >= Threshold
           /\ (BoxWidth(trace[k].xyxy) = 0 \/ BoxHeight(trace[k].xyxy) = 0))
             => trace[k].outcome = "rejected"
    /\ status # "ZeroDivisionError"

(***************************************************************************)
(* C3: the crop region computed for a detection that passed the filter     *)
(* satisfies 0 <= left <= right <= width, 0 <= top <= bottom <= height,    *)
(* right - left <= 200 and bottom - top <= 200.                            *)
(***************************************************************************)
C3_CropRegionInsideImage ==
    \A k \in 1..Len(trace) :
        trace[k].outcome = "accepted" =>
            LET w == Window(trace[k].xyxy, trace[k].size)
            IN  /\ 0 <= w.left.v2 /\ w.left.v2 <= w.right.v2
                /\ w.right.v2 <= 2 * trace[k].size[1]
                /\ 0 <= w.top.v2 /\ w.top.v2 <= w.bottom.v2
                /\ w.bottom.v2 <= 2 * trace[k].size[2]
                /\ w.right.v2 - w.left.v2 <= 2 * 200
                /\ w.bottom.v2 - w.top.v2 <= 2 * 200

(***************************************************************************)
(* C4 as stated: a run of extract() that returns with recording enabled    *)
(* leaves output.csv holding the header followed by the rows of that run   *)
(* alone.                                                                  *)
(***************************************************************************)
C4_RunLeavesOnlyItsRows ==
    [][(Returns /\ save_to_csv) =>
          csv'.rows = <<Header>> \o [k \in 1..Len(saved') |-> CsvRow(saved'[k])]]_vars

(***************************************************************************)
(* C4 amended: a run of extract() that returns with recording enabled      *)
(* leaves output.csv holding the header, then the rows the file already    *)
(* held when the run began, then the rows of that run: extract() only      *)
(* appends, and the file is truncated by set_save_to_csv alone.            *)
(***************************************************************************)
C4_RunAppendsItsRows ==
    [][(Returns /\ save_to_csv) =>
          /\ csv'.rows = csvAtStart'.rows \o [k \in 1..Len(saved') |-> CsvRow(saved'[k])]
          /\ Head(csv'.rows) = Header]_vars

\* a second recording run has returned, and its rows follow those of the first
C4_Witness ==
    /\ pc = "idle" /\ status = "returned" /\ save_to_csv
    /\ Len(csvAtStart.rows) > 1
    /\ Head(csvAtStart.rows) = Header
    /\ Len(saved) > 0
    /\ csv.rows = csvAtStart.rows \o [k \in 1..Len(saved) |-> CsvRow(saved[k])]

(***************************************************************************)
(* C5: during a run with recording enabled the rows appended match the     *)
(* crops saved one to one and in order (same file name, confidence and     *)
(* center), a row is written only after its crop is saved, and the         *)
(* detections are visited in the order the model produced them (files,     *)
(* then result groups, then boxes).                                        *)
(***************************************************************************)
C5_RowsFollowCrops ==
    (pc # "idle" /\ save_to_csv) =>
        /\ Len(csv.rows) >= Len(csvAtStart.rows)
        /\ Len(Appended) = IF pc = "record" THEN Len(saved) - 1 ELSE Len(saved)
        /\ \A k \in 1..Len(Appended) :
              /\ Appended[k].filename = saved[k].filename
              /\ Appended[k].confidence = saved[k].confidence
              /\ Appended[k].center_x = PyStr(saved[k].mid[1])
              /\ Appended[k].center_y = PyStr(saved[k].mid[2])
        /\ \A k \in 1..Len(saved) :
              /\ saved[k].det \in 1..Len(trace)
              /\ trace[saved[k].det].outcome = "accepted"
              /\ k > 1 => saved[k - 1].det < saved[k].det
        /\ Len(saved) = Cardinality({k \in 1..Len(trace) : trace[k].outcome = "accepted"})
        /\ LET produced == Produced(Listing(input_directory))
           IN  /\ Len(trace) <= Len(produced)
               /\ \A k \in 1..Len(trace) :
                     /\ trace[k].filename = produced[k].filename
                     /\ trace[k].i = produced[k].i
                     /\ trace[k].conf = produced[k].conf
                     /\ trace[k].xyxy = produced[k].xyxy

\* two crops of two result groups were saved and recorded after a rejection
C5_Witness ==
    /\ pc = "image" /\ save_to_csv
    /\ Len(saved) = 2 /\ Len(Appended) = 2
    /\ saved[1].i = 0 /\ saved[2].i = 1
    /\ Len(trace) = 3 /\ trace[1].outcome = "rejected"

(***************************************************************************)
(* C6: the height column of a row holds the vertical span bottom - top of  *)
(* its crop, the h of the crop's file name, and the width column holds the *)
(* horizontal span right - left, the w of the file name (for every crop of *)
(* a region that is not empty).                                            *)
(***************************************************************************)
C6_RowHeightIsVerticalSpan ==
    (pc # "idle" /\ save_to_csv) =>
        \A k \in 1..Len(Appended) :
            (k <= Len(saved) /\ ~EmptyRegion(saved[k])) =>
                /\ Appended[k].height = PyStr(PySub(saved[k].bottom, saved[k].top))
                /\ Appended[k].width = PyStr(PySub(saved[k].right, saved[k].left))

(***************************************************************************)
(* C7: when Image.open fails on a file, extract() skips that file alone    *)
(* and goes on with the file that follows it.                              *)
(***************************************************************************)
C7_DecodeFailureSkipsImage ==
    [][(/\ pc = "image"
        /\ image_files # <<>>
        /\ ~FileAt(input_directory, Head(image_files)).ok)
          => (pc' = "image" /\ image_files' = Tail(image_files)
                /\ status' = "running")]_vars

(***************************************************************************)
(* C8: when the input directory is missing or holds no image, extract()    *)
(* returns without raising, never calls the model, saves no crop and       *)
(* appends no row (both directories having been set).                      *)
(***************************************************************************)
C8_NoImagesReturnsQuietly ==
    [][(/\ pc = "idle"
        /\ runs' = runs + 1
        /\ output_directory # ""
        /\ input_directory # ""
        /\ SelectSeq(Names(Listing(input_directory)), EndsWithJpg) = <<>>)
          => (status' = "returned" /\ calls' = <<>> /\ saved' = <<>> /\ csv' = csv)]_vars

(***************************************************************************)
(* C9 as stated: in the worked example the detection is accepted, its      *)
(* center is (170, 180), its region (70, 80, 270, 280), the file name ends *)
(* in _h_200_w_200_result0.jpg and the row holds 200 and 200.              *)
(***************************************************************************)
C9_WorkedExampleAsStated ==
    (data = WorkedExample /\ Len(trace) = 1 /\ status = "running" /\ pc = "image") =>
        /\ trace[1].outcome = "accepted"
        /\ Len(saved) = 1
        /\ saved[1].mid[1].v2 = 2 * 170 /\ saved[1].mid[2].v2 = 2 * 180
        /\ <<saved[1].left.v2, saved[1].top.v2, saved[1].right.v2, saved[1].bottom.v2>>
              = <<2 * 70, 2 * 80, 2 * 270, 2 * 280>>
        /\ saved[1].name = "0.81_cell01.jpg_x_170.0_y_180.0_h_200_w_200_result0.jpg"
        /\ save_to_csv =>
              Appended = <<[filename |-> "cell01.jpg", confidence |-> "0.81",
                            center_x |-> "170.0", center_y |-> "180.0",
                            height |-> "200", width |-> "200"]>>

(***************************************************************************)
(* C9 amended: in the worked example the detection is accepted, its center *)
(* is (170, 180), its region (70, 80, 270, 280); the spans are floats, so  *)
(* the file name is                                                        *)
(* 0.81_cell01.jpg_x_170.0_y_180.0_h_200.0_w_200.0_result0.jpg and the row *)
(* is cell01.jpg, 0.81, 170.0, 180.0, 200.0, 200.0.                        *)
(***************************************************************************)
C9_WorkedExample ==
    (data = WorkedExample /\ Len(trace) = 1 /\ status = "running" /\ pc = "image") =>
        /\ trace[1].outcome = "accepted"
        /\ Len(saved) = 1
        /\ saved[1].mid[1].v2 = 2 * 170 /\ saved[1].mid[2].v2 = 2 * 180
        /\ <<saved[1].left.v2, saved[1].top.v2, saved[1].right.v2, saved[1].bottom.v2>>
              = <<2 * 70, 2 * 80, 2 * 270, 2 * 280>>
        /\ saved[1].name = "0.81_cell01.jpg_x_170.0_y_180.0_h_200.0_w_200.0_result0.jpg"
        /\ save_to_csv =>
              Appended = <<[filename |-> "cell01.jpg", confidence |-> "0.81",
                            center_x |-> "170.0", center_y |-> "180.0",
                            height |-> "200.0", width |-> "200.0"]>>

\* the crop of the worked example is saved and its row written
C9_Witness ==
    /\ data = WorkedExample /\ save_to_csv
    /\ pc = "image" /\ status = "running"
    /\ Len(trace) = 1 /\ Len(saved) = 1 /\ Len(Appended) = 1

(***************************************************************************)
(* C10: a step that leaves save_to_csv false leaves output.csv as it was   *)
(* (set_save_to_csv(False) and every step of extract() with the flag       *)
(* false), and a step that changes output.csv while the flag is false is   *)
(* set_save_to_csv with a true value, which leaves the header alone in it. *)
(***************************************************************************)
C10_TableUntouchedWhileDisabled ==
    [][/\ ~save_to_csv' => csv' = csv
       /\ (~save_to_csv /\ csv' # csv) => (save_to_csv' /\ csv' = OpenCsv)]_vars

\* a run without recording saved a crop and left an existing output.csv as it was
C10_Witness ==
    /\ ~save_to_csv /\ pc = "idle" /\ status = "returned"
    /\ Len(saved) > 0
    /\ csv = Stale /\ csvAtStart = Stale
====
